---- MODULE Spec2Model ----
(***************************************************************************)
(* A model of the PackSixPuzzle solver (src/main.cpp): the canonical form  *)
(* of a Piece, the generation of its orientations, the occupancy grid      *)
(* (Box) and the two backtracking searches.                                *)
(*                                                                         *)
(* A Point or Position is a tuple <<x, y, z>>.  A Piece is a record        *)
(* [id, points, size]: points is the vector points_, size the tuple        *)
(* <<size_.x, size_.y, size_.z>>.  A std::set<Piece> is the sequence of    *)
(* its elements in iteration order.                                        *)
(***************************************************************************)
EXTENDS Integers, Sequences, FiniteSets, TLC

VARIABLES
  box,        \* <<x, y, z>>: the dimensions of the Box
  catalog,    \* pieceOrients: one orientation set per piece
  data,       \* Box::data, indexed from 0
  pieces,     \* Box::pieces, the placement stack (top is last)
  solutions,  \* the snapshots recorded by searchNextCellPiece
  solutionsB, \* the snapshots recorded by searchOnePieceAllPosOrient
  stack,      \* the call stack of the running search (top is last)
  mode,       \* which part of the program is running
  status,     \* "running", or how the process ended
  last,       \* the last Box or Piece operation, with what it was called on
  saved,      \* the Box states in which the stacked pieces were pushed
              \* (Box driven directly) or the running calls were entered
  cur,        \* the Piece under construction and rotation
  rots,       \* the last result of allRotations, with its argument
  orbit       \* the orientation set cur was taken from, if any

vars == <<box, catalog, data, pieces, solutions, solutionsB, stack, mode,
          status, last, saved, cur, rots, orbit>>

(***************************************************************************)
(* Geometry primitives and the canonical form of a Piece.                  *)
(***************************************************************************)

NONE == 0

PointLess(a, b) ==
  \/ a[1] < b[1]
  \/ (a[1] = b[1] /\ a[2] < b[2])
  \/ (a[1] = b[1] /\ a[2] = b[2] /\ a[3] < b[3])

\* std::min folded over S from the initial value 0
MinFrom0(S) == CHOOSE m \in S \cup {0} : \A o \in S \cup {0} : m <= o

\* std::max folded over S from the initial value 0
MaxFrom0(S) == CHOOSE m \in S \cup {0} : \A o \in S \cup {0} : m >= o

RECURSIVE InsertPoint(_, _)
InsertPoint(p, s) ==
  IF s = <<>> THEN <<p>>
  ELSE IF PointLess(p, Head(s)) THEN <<p>> \o s
  ELSE <<Head(s)>> \o InsertPoint(p, Tail(s))

RECURSIVE SortPoints(_)
SortPoints(s) ==
  IF s = <<>> THEN <<>> ELSE InsertPoint(Head(s), SortPoints(Tail(s)))

Coord(pts, axis) == {pts[k][axis] : k \in DOMAIN pts}

\* a normalize that measures the bounding box before it moves the points
normalizeSizeFirst(id, pts) ==
  LET min_x == MinFrom0(Coord(pts, 1))
      min_y == MinFrom0(Coord(pts, 2))
      min_z == MinFrom0(Coord(pts, 3))
      moved == [k \in DOMAIN pts |->
                  <<pts[k][1] - min_x, pts[k][2] - min_y, pts[k][3] - min_z>>]
  IN [id |-> id,
      points |-> SortPoints(moved),
      size |-> <<MaxFrom0({c + 1 : c \in Coord(pts, 1)}),
                 MaxFrom0({c + 1 : c \in Coord(pts, 2)}),
                 MaxFrom0({c + 1 : c \in Coord(pts, 3)})>>]

normalize(id, pts) ==
  LET min_x == MinFrom0(Coord(pts, 1))
      min_y == MinFrom0(Coord(pts, 2))
      min_z == MinFrom0(Coord(pts, 3))
      moved == [k \in DOMAIN pts |->
                  <<pts[k][1] - min_x, pts[k][2] - min_y, pts[k][3] - min_z>>]
  IN [id |-> id,
      points |-> SortPoints(moved),
      size |-> <<MaxFrom0({c + 1 : c \in Coord(moved, 1)}),
                 MaxFrom0({c + 1 : c \in Coord(moved, 2)}),
                 MaxFrom0({c + 1 : c \in Coord(moved, 3)})>>]

\* The constructor Piece(id, points)
Piece(id, pts) == normalize(id, pts)

\* rotations done in place, the second coordinate computed from the first
\* one already overwritten
rotatePointInPlace(name, pt) ==
  IF name = "Z" THEN <<pt[2], -pt[2], pt[3]>>
  ELSE IF name = "X" THEN <<pt[1], pt[3], -pt[3]>>
  ELSE <<pt[3], pt[2], -pt[3]>>

\* the point formulas of rotateZ, rotateX and rotateY (lines 44, 54, 64)
rotatePoint(name, pt) ==
  IF name = "Z" THEN <<pt[2], -pt[1], pt[3]>>
  ELSE IF name = "X" THEN <<pt[1], pt[3], -pt[2]>>
  ELSE <<pt[3], pt[2], -pt[1]>>

rotateZ(p) ==
  normalize(p.id, [k \in DOMAIN p.points |-> rotatePoint("Z", p.points[k])])

rotateX(p) ==
  normalize(p.id, [k \in DOMAIN p.points |-> rotatePoint("X", p.points[k])])

rotateY(p) ==
  normalize(p.id, [k \in DOMAIN p.points |-> rotatePoint("Y", p.points[k])])

\* Piece::operator<: std::vector's lexicographical comparison of points_
RECURSIVE PointsLess(_, _)
PointsLess(a, b) ==
  IF b = <<>> THEN FALSE
  ELSE IF a = <<>> THEN TRUE
  ELSE IF PointLess(Head(a), Head(b)) THEN TRUE
  ELSE IF PointLess(Head(b), Head(a)) THEN FALSE
  ELSE PointsLess(Tail(a), Tail(b))

PieceLess(p, q) == PointsLess(p.points, q.points)

\* an insert that keeps equivalent elements, as a std::multiset would
RECURSIVE SetInsertKeepingDuplicates(_, _)
SetInsertKeepingDuplicates(s, p) ==
  IF s = <<>> THEN <<p>>
  ELSE IF PieceLess(p, Head(s)) THEN <<p>> \o s
  ELSE <<Head(s)>> \o SetInsertKeepingDuplicates(Tail(s), p)

\* std::set<Piece>::insert: no effect when an equivalent element is present
RECURSIVE SetInsert(_, _)
SetInsert(s, p) ==
  IF s = <<>> THEN <<p>>
  ELSE IF PieceLess(p, Head(s)) THEN <<p>> \o s
  ELSE IF PieceLess(Head(s), p) THEN <<Head(s)>> \o SetInsert(Tail(s), p)
  ELSE s

(***************************************************************************)
(* Orientation generation.                                                 *)
(***************************************************************************)

\* a rotation sequence that turns about Y where line 154 turns about X
RotationStepsWrongTurn ==
  << <<>>, <<"X">>, <<"X">>, <<"X">>,
     <<"Z">>, <<"Y">>, <<"Y">>, <<"Y">>,
     <<"Z">>, <<"X">>, <<"X">>, <<"X">>,
     <<"Z">>, <<"Y">>, <<"Y">>, <<"Y">>,
     <<"Y">>, <<"Z">>, <<"Z">>, <<"Z">>,
     <<"X", "X">>, <<"Z">>, <<"Z">>, <<"Z">> >>

\* The rotations applied before each of the 24 inserts of allRotations
RotationSteps ==
  << <<>>, <<"X">>, <<"X">>, <<"X">>,
     <<"Z">>, <<"Y">>, <<"Y">>, <<"Y">>,
     <<"Z">>, <<"X">>, <<"X">>, <<"X">>,
     <<"Z">>, <<"Y">>, <<"Y">>, <<"Y">>,
     <<"X">>, <<"Z">>, <<"Z">>, <<"Z">>,
     <<"X", "X">>, <<"Z">>, <<"Z">>, <<"Z">> >>

rotate(name, p) ==
  IF name = "X" THEN rotateX(p)
  ELSE IF name = "Y" THEN rotateY(p)
  ELSE rotateZ(p)

RECURSIVE rotateAll(_, _)
rotateAll(names, p) ==
  IF names = <<>> THEN p ELSE rotateAll(Tail(names), rotate(Head(names), p))

\* lines 134-162: result after the inserts k, k+1, ... of the sequence
RECURSIVE insertRotations(_, _, _)
insertRotations(p, result, k) ==
  IF k > Len(RotationSteps) THEN result
  ELSE LET q == rotateAll(RotationSteps[k], p)
       IN insertRotations(q, SetInsert(result, q), k + 1)

\* a height filter that is off by one
passesHeightFilterStrict(p) == p.size[3] < 1

\* line 168
passesHeightFilter(p) == p.size[3] <= 1

RECURSIVE filterHeight(_, _)
filterHeight(result, filtered) ==
  IF result = <<>> THEN filtered
  ELSE filterHeight(Tail(result),
                    IF passesHeightFilter(Head(result))
                    THEN SetInsert(filtered, Head(result))
                    ELSE filtered)

allRotations(p) == filterHeight(insertRotations(p, <<>>, 1), <<>>)

(***************************************************************************)
(* The Piece under construction: the constructor applied to a list of      *)
(* points, the three rotations, and allRotations.                          *)
(***************************************************************************)

MaxPts == 3

\* the coordinates of the points handed to the constructor
Grid == {-1, 0, 1} \X {-1, 0, 1} \X {0, 1}

\* the sets of at most n points of the grid
RECURSIVE PointSets(_)
PointSets(n) ==
  IF n = 0 THEN {{}}
  ELSE LET smaller == PointSets(n - 1)
       IN smaller \cup {S \cup {pt} : S \in smaller, pt \in Grid}

\* the points of S as the list handed to the constructor, last point first
RECURSIVE InputList(_)
InputList(S) ==
  IF S = {} THEN <<>>
  ELSE LET top == CHOOSE a \in S : \A b \in S : a = b \/ PointLess(b, a)
       IN <<top>> \o InputList(S \ {top})

NoBox == <<1, 1, 1>>

NoPiece == [id |-> NONE, points |-> <<>>, size |-> <<0, 0, 0>>]

InitPiece ==
  /\ mode = "piece"
  /\ \E S \in PointSets(MaxPts) \ {{}} : cur = Piece(1, InputList(S))
  /\ rots = <<>>
  /\ orbit = <<>>
  /\ box = NoBox
  /\ catalog = <<>>
  /\ data = <<>>
  /\ pieces = <<>>
  /\ solutions = <<>>
  /\ solutionsB = <<>>
  /\ stack = <<>>
  /\ status = "running"
  /\ last = <<>>
  /\ saved = <<>>

searchVars == <<box, catalog, data, pieces, solutions, solutionsB, stack,
                status, last, saved>>

RotateX ==
  /\ mode = "piece"
  /\ cur' = rotateX(cur)
  /\ rots' = <<>>
  /\ orbit' = <<>>
  /\ UNCHANGED <<mode, searchVars>>

RotateY ==
  /\ mode = "piece"
  /\ cur' = rotateY(cur)
  /\ rots' = <<>>
  /\ orbit' = <<>>
  /\ UNCHANGED <<mode, searchVars>>

RotateZ ==
  /\ mode = "piece"
  /\ cur' = rotateZ(cur)
  /\ rots' = <<>>
  /\ orbit' = <<>>
  /\ UNCHANGED <<mode, searchVars>>

\* allRotations(cur)
AllRotations ==
  /\ mode = "piece"
  /\ rots = <<>>
  /\ rots' = <<[base |-> cur, set |-> allRotations(cur)]>>
  /\ UNCHANGED <<cur, orbit, mode, searchVars>>

\* a member of the returned set becomes the next argument
TakeMember ==
  /\ mode = "piece"
  /\ rots # <<>>
  /\ \E k \in DOMAIN rots[1].set : cur' = rots[1].set[k]
  /\ orbit' = rots
  /\ rots' = <<>>
  /\ UNCHANGED <<mode, searchVars>>

NextPiece == RotateX \/ RotateY \/ RotateZ \/ AllRotations \/ TakeMember

SpecPiece == InitPiece /\ [][NextPiece]_vars

(***************************************************************************)
(* The Piece turned and normalized call by call: each call leaves in last  *)
(* its name and the Piece it was called on.                                *)
(***************************************************************************)

turnVars == <<box, catalog, data, pieces, solutions, solutionsB, stack,
              mode, status, saved, rots, orbit>>

\* the record of the call of op on the Piece arg
Called(op, arg) == <<[op |-> op, arg |-> arg]>>

\* cur.normalize(), called once more on a Piece that normalize has processed
CallNormalize ==
  /\ mode = "piece"
  /\ cur' = normalize(cur.id, cur.points)
  /\ last' = Called("normalize", cur)
  /\ UNCHANGED turnVars

CallRotateX ==
  /\ mode = "piece"
  /\ cur' = rotateX(cur)
  /\ last' = Called("rotateX", cur)
  /\ UNCHANGED turnVars

CallRotateY ==
  /\ mode = "piece"
  /\ cur' = rotateY(cur)
  /\ last' = Called("rotateY", cur)
  /\ UNCHANGED turnVars

CallRotateZ ==
  /\ mode = "piece"
  /\ cur' = rotateZ(cur)
  /\ last' = Called("rotateZ", cur)
  /\ UNCHANGED turnVars

NextTurn == CallNormalize \/ CallRotateX \/ CallRotateY \/ CallRotateZ

SpecTurn == InitPiece /\ [][NextTurn]_vars

(***************************************************************************)
(* Properties of the canonical form and of the orientation sets.           *)
(***************************************************************************)

Min(S) == CHOOSE m \in S : \A o \in S : m <= o

Max(S) == CHOOSE m \in S : \A o \in S : m >= o

PointSet(p) == {p.points[k] : k \in DOMAIN p.points}

IsCanonical(p) ==
  /\ p.points # <<>>
  /\ \A axis \in 1..3 : Min(Coord(p.points, axis)) = 0
  /\ \A axis \in 1..3 : p.size[axis] = Max(Coord(p.points, axis)) + 1
  /\ \A k \in 1..(Len(p.points) - 1) :
        PointLess(p.points[k], p.points[k + 1])

\* C7: every Piece the constructor or a rotation produces is canonical:
\* its minimum coordinate is 0 on each axis, its size is the maximum
\* coordinate + 1 on each axis, and its points are sorted ascending.
CanonicalInvariant == mode = "piece" => IsCanonical(cur)

\* The 24 proper rotations of the cube, each as the images of the three
\* unit vectors: signed permutation matrices of determinant 1.
UnitVectors ==
  {<<1, 0, 0>>, <<-1, 0, 0>>, <<0, 1, 0>>, <<0, -1, 0>>, <<0, 0, 1>>,
   <<0, 0, -1>>}

Dot(a, b) == a[1] * b[1] + a[2] * b[2] + a[3] * b[3]

Cross(a, b) ==
  <<a[2] * b[3] - a[3] * b[2], a[3] * b[1] - a[1] * b[3],
    a[1] * b[2] - a[2] * b[1]>>

ProperRotations ==
  {m \in UnitVectors \X UnitVectors \X UnitVectors :
     Dot(m[1], m[2]) = 0 /\ Cross(m[1], m[2]) = m[3]}

ApplyRotation(m, pt) ==
  <<pt[1] * m[1][1] + pt[2] * m[2][1] + pt[3] * m[3][1],
    pt[1] * m[1][2] + pt[2] * m[2][2] + pt[3] * m[3][2],
    pt[1] * m[1][3] + pt[2] * m[2][3] + pt[3] * m[3][3]>>

\* the translate of the point set S whose minimum is 0 on each axis
CanonicalSet(S) ==
  LET lo == [axis \in 1..3 |-> Min({pt[axis] : pt \in S})]
  IN {<<pt[1] - lo[1], pt[2] - lo[2], pt[3] - lo[3]>> : pt \in S}

\* the canonical forms of the 24 rotated images of S of z-extent <= 1
FlatImages(S) ==
  {T \in {CanonicalSet({ApplyRotation(m, pt) : pt \in S}) :
            m \in ProperRotations} :
     \A pt \in T : pt[3] = 0}

\* the rotation that the first k inserts of allRotations have composed
RECURSIVE composedPoint(_, _)
composedPoint(names, pt) ==
  IF names = <<>> THEN pt
  ELSE composedPoint(Tail(names), rotatePoint(Head(names), pt))

RECURSIVE stepsUpTo(_)
stepsUpTo(k) ==
  IF k = 0 THEN <<>> ELSE stepsUpTo(k - 1) \o RotationSteps[k]

ComposedRotation(k) ==
  <<composedPoint(stepsUpTo(k), <<1, 0, 0>>),
    composedPoint(stepsUpTo(k), <<0, 1, 0>>),
    composedPoint(stepsUpTo(k), <<0, 0, 1>>)>>

\* the 24 inserts of allRotations are made under the 24 proper rotations
\* of the cube, each once
SequenceVisitsEachRotationOnce ==
  /\ Len(RotationSteps) = 24
  /\ {ComposedRotation(k) : k \in 1..24} = ProperRotations
  /\ Cardinality({ComposedRotation(k) : k \in 1..24}) = 24

\* C8: the rotation sequence of allRotations visits each of the 24 proper
\* rotations once; for a canonical argument the returned set is the set of
\* canonical forms of the 24 rotated images that pass the height filter,
\* without duplicates; and allRotations of a member of the set returned for
\* a canonical argument returns that set again.
RotationsExhaustive ==
  /\ SequenceVisitsEachRotationOnce
  /\ (rots # <<>> /\ IsCanonical(rots[1].base)) =>
        /\ {PointSet(q) : q \in {rots[1].set[k] : k \in DOMAIN rots[1].set}}
             = FlatImages(PointSet(rots[1].base))
        /\ Len(rots[1].set) = Cardinality(FlatImages(PointSet(rots[1].base)))
        /\ \A k \in DOMAIN rots[1].set : IsCanonical(rots[1].set[k])
  /\ (rots # <<>> /\ orbit # <<>> /\ IsCanonical(orbit[1].base)) =>
        rots[1].set = orbit[1].set

\* a canonical argument with several orientations, one of which was taken
\* as the argument of a second call
RotationsExhaustiveWitness ==
  /\ rots # <<>>
  /\ orbit # <<>>
  /\ IsCanonical(orbit[1].base)
  /\ Len(orbit[1].set) >= 4
  /\ rots[1].base # orbit[1].base

\* C9 as stated: the returned set has at least 1 and at most 24 members
\* for any argument.
OrientationCountBound ==
  rots # <<>> => (Len(rots[1].set) >= 1 /\ Len(rots[1].set) <= 24)

HasUnitExtent(p) == \E axis \in 1..3 : p.size[axis] = 1

\* C9 amended: the returned set has at most 24 members; it has at least 1
\* member when the argument's bounding box has extent 1 on some axis, and
\* it is empty for a canonical argument whose extent exceeds 1 on every
\* axis.
OrientationCountAmended ==
  rots # <<>> =>
    /\ Len(rots[1].set) <= 24
    /\ HasUnitExtent(rots[1].base) => Len(rots[1].set) >= 1
    /\ (IsCanonical(rots[1].base) /\ ~HasUnitExtent(rots[1].base)) =>
          rots[1].set = <<>>

\* a planar argument with four orientations left by the height filter
OrientationCountWitness ==
  /\ rots # <<>>
  /\ HasUnitExtent(rots[1].base)
  /\ Len(rots[1].set) = 4

IsRotation(l) ==
  l # <<>> /\ l[1].op \in {"rotateX", "rotateY", "rotateZ"}

\* size_.x * size_.y * size_.z
BoxVolume(p) == p.size[1] * p.size[2] * p.size[3]

\* the extents of size as a quarter turn about the axis of op permutes them
ExtentsAfter(op, size) ==
  IF op = "rotateX" THEN <<size[1], size[3], size[2]>>
  ELSE IF op = "rotateY" THEN <<size[3], size[2], size[1]>>
  ELSE <<size[2], size[1], size[3]>>

\* C11: rotateX, rotateY or rotateZ applied to a canonical Piece yields a
\* Piece with the same number of points and the same bounding-box volume:
\* its extents are those of the argument, two of them exchanged.
RotationClosure ==
  (mode = "piece" /\ IsRotation(last) /\ IsCanonical(last[1].arg)) =>
    /\ Len(cur.points) = Len(last[1].arg.points)
    /\ BoxVolume(cur) = BoxVolume(last[1].arg)
    /\ cur.size = ExtentsAfter(last[1].op, last[1].arg.size)

\* a rotation has turned a canonical Piece of three points into one of
\* other extents
RotationClosureWitness ==
  /\ mode = "piece"
  /\ IsRotation(last)
  /\ IsCanonical(last[1].arg)
  /\ Len(cur.points) = 3
  /\ cur.size # last[1].arg.size

\* C12: normalize called on a Piece that normalize has already processed
\* leaves points_ and size_ as they were.
NormalizeIdempotent ==
  (mode = "piece" /\ last # <<>> /\ last[1].op = "normalize") =>
    /\ cur.points = last[1].arg.points
    /\ cur.size = last[1].arg.size

\* normalize has been called again on a Piece of several points that the
\* first call left with a minimum coordinate above 0
NormalizeIdempotentWitness ==
  /\ mode = "piece"
  /\ last # <<>>
  /\ last[1].op = "normalize"
  /\ Len(cur.points) >= 2
  /\ ~IsCanonical(last[1].arg)

(***************************************************************************)
(* The occupancy grid (Box).  The Box is the triple box (its dimensions),  *)
(* data and pieces; a record of pieces is [piece, pos].                    *)
(***************************************************************************)

Volume(b) == b[1] * b[2] * b[3]

\* Box::Box: every cell NONE
EmptyData(b) == [i \in 0..(Volume(b) - 1) |-> NONE]

Index(b, x, y, z) == x + y * b[1] + z * b[1] * b[2]

isOccupied(b, d, x, y, z) == d[Index(b, x, y, z)] # NONE

\* a setOccupied for a grid of flags: the cell is marked, whatever the id
setOccupiedAsFlag(b, d, x, y, z, id) == [d EXCEPT ![Index(b, x, y, z)] = 1]

setOccupied(b, d, x, y, z, id) == [d EXCEPT ![Index(b, x, y, z)] = id]

clearOccupied(b, d, x, y, z) == [d EXCEPT ![Index(b, x, y, z)] = NONE]

\* a bounds check of the upper limits alone
isOutOfBoundAbove(b, pos) ==
  pos[1] >= b[1] \/ pos[2] >= b[2] \/ pos[3] >= b[3]

isOutOfBound(b, pos) ==
  \/ pos[1] < 0 \/ pos[1] >= b[1]
  \/ pos[2] < 0 \/ pos[2] >= b[2]
  \/ pos[3] < 0 \/ pos[3] >= b[3]

Translate(pos, pt) == <<pos[1] + pt[1], pos[2] + pt[2], pos[3] + pt[3]>>

\* lines 230-237: FALSE when a point from the k-th on is out of bounds or
\* on an occupied cell
RECURSIVE fitsFrom(_, _, _, _, _)
fitsFrom(b, d, piece, pos, k) ==
  IF k > Len(piece.points) THEN TRUE
  ELSE LET c == Translate(pos, piece.points[k])
       IN IF isOutOfBound(b, c) THEN FALSE
          ELSE IF isOccupied(b, d, c[1], c[2], c[3]) THEN FALSE
          ELSE fitsFrom(b, d, piece, pos, k + 1)

\* a marking loop that starts at the second point
RECURSIVE markFromSecond(_, _, _, _, _)
markFromSecond(b, d, piece, pos, k) ==
  IF k > Len(piece.points) THEN d
  ELSE LET c == Translate(pos, piece.points[k])
       IN markFromSecond(
            b,
            IF k = 1 THEN d
            ELSE setOccupied(b, d, c[1], c[2], c[3], piece.id),
            piece, pos, k + 1)

\* lines 238-240: data with the points from the k-th on marked
RECURSIVE markFrom(_, _, _, _, _)
markFrom(b, d, piece, pos, k) ==
  IF k > Len(piece.points) THEN d
  ELSE LET c == Translate(pos, piece.points[k])
       IN markFrom(b, setOccupied(b, d, c[1], c[2], c[3], piece.id),
                   piece, pos, k + 1)

\* a single loop that marks each point as soon as it has passed its check
RECURSIVE markWhileChecking(_, _, _, _, _)
markWhileChecking(b, d, piece, pos, k) ==
  IF k > Len(piece.points) THEN [ok |-> TRUE, data |-> d]
  ELSE LET c == Translate(pos, piece.points[k])
       IN IF isOutOfBound(b, c) THEN [ok |-> FALSE, data |-> d]
          ELSE IF isOccupied(b, d, c[1], c[2], c[3])
               THEN [ok |-> FALSE, data |-> d]
          ELSE markWhileChecking(
                 b, setOccupied(b, d, c[1], c[2], c[3], piece.id),
                 piece, pos, k + 1)

\* tryPushPieceTo without its separate checking loop
tryPushPieceToEager(b, d, ps, piece, pos) ==
  LET r == markWhileChecking(b, d, piece, pos, 1)
  IN [ok |-> r.ok,
      data |-> r.data,
      pieces |-> IF r.ok THEN Append(ps, [piece |-> piece, pos |-> pos])
                 ELSE ps]

\* Box::tryPushPieceTo: the value returned, and data and pieces after it
tryPushPieceTo(b, d, ps, piece, pos) ==
  IF fitsFrom(b, d, piece, pos, 1)
  THEN [ok |-> TRUE,
        data |-> markFrom(b, d, piece, pos, 1),
        pieces |-> Append(ps, [piece |-> piece, pos |-> pos])]
  ELSE [ok |-> FALSE, data |-> d, pieces |-> ps]

\* lines 230-237: the indices at which the checking loop reads data, from
\* the k-th point on; the loop ends at the first point out of bounds or on
\* an occupied cell (a read outside data is undefined, and ends it here)
RECURSIVE readFrom(_, _, _, _, _)
readFrom(b, d, piece, pos, k) ==
  IF k > Len(piece.points) THEN {}
  ELSE LET c == Translate(pos, piece.points[k])
           i == Index(b, c[1], c[2], c[3])
       IN IF isOutOfBound(b, c) THEN {}
          ELSE IF i \notin DOMAIN d THEN {i}
          ELSE IF isOccupied(b, d, c[1], c[2], c[3]) THEN {i}
          ELSE {i} \cup readFrom(b, d, piece, pos, k + 1)

\* lines 238-240: the indices at which the marking loop writes data
writtenBy(b, piece, pos) ==
  {Index(b, pos[1] + piece.points[k][1], pos[2] + piece.points[k][2],
         pos[3] + piece.points[k][3]) : k \in DOMAIN piece.points}

\* Box::tryPushPieceTo: the indices at which it reads or writes data
indicesUsed(b, d, piece, pos) ==
  LET reads == readFrom(b, d, piece, pos, 1)
  IN IF reads \subseteq DOMAIN d /\ fitsFrom(b, d, piece, pos, 1)
     THEN reads \cup writtenBy(b, piece, pos)
     ELSE reads

\* lines 270-274: the points of rec from the k-th on asserted and cleared
RECURSIVE clearFrom(_, _, _, _)
clearFrom(b, d, rec, k) ==
  IF k > Len(rec.piece.points) THEN [aborted |-> FALSE, data |-> d]
  ELSE LET c == Translate(rec.pos, rec.piece.points[k])
       IN IF ~isOccupied(b, d, c[1], c[2], c[3])
          THEN [aborted |-> TRUE, data |-> d]
          ELSE clearFrom(b, clearOccupied(b, d, c[1], c[2], c[3]), rec, k + 1)

\* popPiece without its clearing loop
popPieceKeepingCells(b, d, ps) ==
  [aborted |-> FALSE, data |-> d, pieces |-> SubSeq(ps, 1, Len(ps) - 1)]

\* a popPiece that clears the cells and leaves the record on the stack
popPieceKeepingRecord(b, d, ps) ==
  LET r == clearFrom(b, d, ps[Len(ps)], 1)
  IN [aborted |-> r.aborted, data |-> r.data, pieces |-> ps]

\* Box::popPiece on a non-empty stack: whether an assertion failed, and data
\* and pieces after it
popPiece(b, d, ps) ==
  LET r == clearFrom(b, d, ps[Len(ps)], 1)
  IN [aborted |-> r.aborted,
      data |-> r.data,
      pieces |-> IF r.aborted THEN ps ELSE SubSeq(ps, 1, Len(ps) - 1)]

\* Box::findFirstEmptyCell: scan x outer, y middle, z inner
RECURSIVE scanFrom(_, _, _, _, _)
scanFrom(b, d, x, y, z) ==
  IF x >= b[1] THEN <<-1, -1, -1>>
  ELSE IF y >= b[2] THEN scanFrom(b, d, x + 1, 0, 0)
  ELSE IF z >= b[3] THEN scanFrom(b, d, x, y + 1, 0)
  ELSE IF ~isOccupied(b, d, x, y, z) THEN <<x, y, z>>
  ELSE scanFrom(b, d, x, y, z + 1)

\* a scan with the loops nested the other way: z outer, y middle, x inner
RECURSIVE scanZOuterFrom(_, _, _, _, _)
scanZOuterFrom(b, d, x, y, z) ==
  IF z >= b[3] THEN <<-1, -1, -1>>
  ELSE IF y >= b[2] THEN scanZOuterFrom(b, d, 0, 0, z + 1)
  ELSE IF x >= b[1] THEN scanZOuterFrom(b, d, 0, y + 1, z)
  ELSE IF ~isOccupied(b, d, x, y, z) THEN <<x, y, z>>
  ELSE scanZOuterFrom(b, d, x + 1, y, z)

findFirstEmptyCellZOuter(b, d) == scanZOuterFrom(b, d, 0, 0, 0)

findFirstEmptyCell(b, d) == scanFrom(b, d, 0, 0, 0)

(***************************************************************************)
(* The piece catalog, built as main builds it: each entry is handed to     *)
(* the constructor and then expanded by allRotations, or kept as the one   *)
(* orientation given (as main does for F5).                                *)
(***************************************************************************)

MaxCells == 6

MaxPieces == 3

PieceDefs ==
  << [id |-> 1, points |-> <<<<0, 0, 0>>>>, fixed |-> FALSE],
     [id |-> 2, points |-> <<<<0, 0, 0>>, <<0, 1, 0>>>>, fixed |-> FALSE],
     [id |-> 3, points |-> <<<<0, 0, 0>>, <<0, 1, 0>>, <<1, 0, 0>>>>,
      fixed |-> FALSE],
     [id |-> 4, points |-> <<<<0, 0, 0>>, <<0, 0, 1>>>>, fixed |-> TRUE] >>

\* main, lines 425-431
OrientationsOf(def) ==
  IF def.fixed THEN <<Piece(def.id, def.points)>>
  ELSE allRotations(Piece(def.id, def.points))

Orientations == [n \in DOMAIN PieceDefs |-> OrientationsOf(PieceDefs[n])]

Boxes ==
  {b \in (1..MaxCells) \X (1..MaxCells) \X (1..MaxCells) :
     Volume(b) <= MaxCells}

(***************************************************************************)
(* The Box driven through its own operations.                              *)
(***************************************************************************)

\* the deepest placement stack the Box is driven to
MaxStack == 2

\* the pieces handed to tryPushPieceTo: the first orientations of each set
BoxPieces ==
  UNION {{Orientations[n][k] : k \in DOMAIN Orientations[n] \cap 1..2} :
           n \in DOMAIN Orientations}

Positions(b) == (-1..b[1]) \X (-1..b[2]) \X (-1..b[3])

InBox(b, c) ==
  c[1] \in 0..(b[1] - 1) /\ c[2] \in 0..(b[2] - 1) /\ c[3] \in 0..(b[3] - 1)

Cells(b, piece, pos) == {Translate(pos, pt) : pt \in PointSet(piece)}

\* some translated point is out of bounds or on an occupied cell
Blocked(b, d, piece, pos) ==
  \E c \in Cells(b, piece, pos) :
    ~InBox(b, c) \/ d[c[1] + b[1] * (c[2] + b[2] * c[3])] # NONE

pieceVars == <<cur, rots, orbit>>

InitBox ==
  /\ mode = "box"
  /\ box \in Boxes
  /\ data = EmptyData(box)
  /\ pieces = <<>>
  /\ status = "running"
  /\ last = <<>>
  /\ saved = <<>>
  /\ catalog = <<>>
  /\ solutions = <<>>
  /\ solutionsB = <<>>
  /\ stack = <<>>
  /\ cur = NoPiece
  /\ rots = <<>>
  /\ orbit = <<>>

Pops == IF last # <<>> /\ last[1].op = "pop" THEN last[1].pops ELSE 0

\* box.tryPushPieceTo(piece, pos)
TryPushPieceTo ==
  /\ mode = "box"
  /\ status = "running"
  /\ Len(pieces) < MaxStack
  /\ \E piece \in BoxPieces, pos \in Positions(box) :
       LET r == tryPushPieceTo(box, data, pieces, piece, pos)
       IN /\ data' = r.data
          /\ pieces' = r.pieces
          /\ saved' = IF r.ok
                      THEN Append(saved, [data |-> data, pieces |-> pieces])
                      ELSE saved
          /\ last' = <<[op |-> "push", ok |-> r.ok,
                        blocked |-> Blocked(box, data, piece, pos),
                        pops |-> 0]>>
  /\ UNCHANGED <<box, catalog, solutions, solutionsB, stack, mode, status,
                 pieceVars>>

\* box.popPiece() with a piece on the stack
PopPiece ==
  /\ mode = "box"
  /\ status = "running"
  /\ pieces # <<>>
  /\ LET r == popPiece(box, data, pieces)
     IN /\ data' = r.data
        /\ pieces' = r.pieces
        /\ status' = IF r.aborted THEN "aborted" ELSE "running"
        /\ last' = <<[op |-> "pop", ok |-> ~r.aborted, blocked |-> FALSE,
                      pops |-> Pops + 1]>>
  /\ saved' = SubSeq(saved, 1, Len(saved) - 1)
  /\ UNCHANGED <<box, catalog, solutions, solutionsB, stack, mode, pieceVars>>

\* box.popPiece() with nothing on the stack: pieces.back() of an empty
\* vector is undefined.  The process may be stopped by a check of the
\* library ("aborted"), be killed by the access ("crashed"), or go on with
\* whatever the stray record made it clear ("undefined").
PopPieceOnEmpty ==
  /\ mode = "box"
  /\ status = "running"
  /\ pieces = <<>>
  /\ \/ status' \in {"aborted", "crashed"} /\ data' = data
     \/ /\ status' = "undefined"
        /\ \E i \in DOMAIN data : data' = [data EXCEPT ![i] = NONE]
  /\ last' = <<[op |-> "pop", ok |-> FALSE, blocked |-> FALSE, pops |-> 0]>>
  /\ UNCHANGED <<box, catalog, pieces, solutions, solutionsB, stack, mode,
                 saved, pieceVars>>

NextBox == TryPushPieceTo \/ PopPiece \/ PopPieceOnEmpty

SpecBox == InitBox /\ [][NextBox]_vars

(***************************************************************************)
(* Properties of the Box operations.                                       *)
(***************************************************************************)

IsPush(l) == l # <<>> /\ l[1].op = "push"

IsPop(l) == l # <<>> /\ l[1].op = "pop"

CellIndex(b, c) == c[1] + b[1] * (c[2] + b[2] * c[3])

\* C5: a tryPushPieceTo with a translated point out of bounds or on an
\* occupied cell returns false and leaves data and pieces as they were; one
\* that returns true has pushed exactly one record and changed exactly the
\* cells of that record, each from NONE to the piece's id.
PushAtomic ==
  [][IsPush(last') =>
       /\ last'[1].blocked => ~last'[1].ok
       /\ ~last'[1].ok => (data' = data /\ pieces' = pieces)
       /\ last'[1].ok =>
            /\ Len(pieces') = Len(pieces) + 1
            /\ SubSeq(pieces', 1, Len(pieces)) = pieces
            /\ LET rec == pieces'[Len(pieces')]
                   cells == {CellIndex(box, c) :
                               c \in Cells(box, rec.piece, rec.pos)}
               IN /\ Cardinality(cells) = Len(rec.piece.points)
                  /\ cells \subseteq DOMAIN data
                  /\ \A i \in DOMAIN data :
                       IF i \in cells
                       THEN data[i] = NONE /\ data'[i] = rec.piece.id
                       ELSE data'[i] = data[i]]_vars

\* a push refused on a grid that already holds a piece and still has an
\* empty cell
PushAtomicWitness ==
  /\ IsPush(last)
  /\ last[1].blocked
  /\ ~last[1].ok
  /\ Len(pieces) = 1
  /\ \E i \in DOMAIN data : data[i] = NONE

\* C6: each popPiece that undoes a successful tryPushPieceTo returns data
\* and pieces to their state before that push, with no assertion failing;
\* so n pushes followed by n pops return the Box to its state before them.
PushPopRoundTrip ==
  [][(IsPop(last') /\ pieces # <<>>) =>
       /\ status' = "running"
       /\ last'[1].ok
       /\ data' = saved[Len(saved)].data
       /\ pieces' = saved[Len(saved)].pieces
       /\ Len(saved) = Len(pieces)]_vars

\* two pushes and then two pops have emptied the Box again
PushPopRoundTripWitness ==
  /\ IsPop(last)
  /\ last[1].pops >= 2
  /\ last[1].ok
  /\ pieces = <<>>
  /\ data = EmptyData(box)

\* the record on top of the stack covers a cell that does not hold its id
TopMismatch ==
  /\ pieces # <<>>
  /\ LET rec == pieces[Len(pieces)]
     IN \E c \in Cells(box, rec.piece, rec.pos) :
          ~InBox(box, c) \/ data[CellIndex(box, c)] # rec.piece.id

\* C10: a popPiece called with an empty stack, or with a cell to clear that
\* does not hold the popped piece's id, ends in a failed assertion and
\* leaves data and pieces as they were.
PopViolationAborts ==
  [][(IsPop(last') /\ (pieces = <<>> \/ TopMismatch)) =>
       (status' = "aborted" /\ data' = data /\ pieces' = pieces)]_vars

(***************************************************************************)
(* The two searches.  A call of searchNextCellPiece is a frame             *)
(*   [fn |-> "next", avail, level, emptyCell, k, pc]                       *)
(* where avail is pieceOrientPtrs (each pointer the index of its set in    *)
(* catalog) and k counts the iterations of the two nested loops; a call of *)
(* searchOnePieceAllPosOrient is a frame                                   *)
(*   [fn |-> "brute", idx, k, pc]                                          *)
(* where k counts the iterations of its four nested loops.  pc is "entry"  *)
(* before the body has run, "loop" at the head of the innermost loop,      *)
(* "called" while the recursive call runs and "returned" once it is back.  *)
(***************************************************************************)

\* the sequences of at most n distinct entries of PieceDefs
RECURSIVE DefSeqs(_)
DefSeqs(n) ==
  IF n = 0 THEN {<<>>}
  ELSE LET shorter == DefSeqs(n - 1)
       IN shorter \cup
          UNION {{Append(q, d) :
                    d \in DOMAIN PieceDefs \ {q[i] : i \in DOMAIN q}} :
                   q \in shorter}

\* main, lines 424-431: pieceOrients for the chosen entries
CatalogOf(q) == [n \in DOMAIN q |-> Orientations[q[n]]]

\* lines 374-376: the (i, orientation) pairs in the order the loops visit
\* them, i counted from 1
RECURSIVE nextItemsFrom(_, _, _)
nextItemsFrom(cat, avail, i) ==
  IF i > Len(avail) THEN <<>>
  ELSE [o \in 1..Len(cat[avail[i]]) |-> <<i, o>>]
       \o nextItemsFrom(cat, avail, i + 1)

nextItems(cat, avail) == nextItemsFrom(cat, avail, 1)

\* an anchor that puts the piece's origin, not its first point, on the cell
posToTryAtOrigin(emptyCell, p) == emptyCell

\* lines 379-381
posToTry(emptyCell, p) ==
  <<emptyCell[1] - p.points[1][1], emptyCell[2] - p.points[1][2],
    emptyCell[3] - p.points[1][3]>>

\* an erase of the first element, whatever i is
eraseFirst(avail, i) == Tail(avail)

\* a copy of pieceOrientPtrs from which nothing is erased
eraseNothing(avail, i) == avail

\* lines 388-389: the copy of pieceOrientPtrs without its element i
eraseAt(avail, i) ==
  SubSeq(avail, 1, i - 1) \o SubSeq(avail, i + 1, Len(avail))

\* lines 332-334: the anchors tried for orientation p, in loop order
anchorsOf(b, p) ==
  LET nx == b[1] - p.size[1] + 1
      ny == b[2] - p.size[2] + 1
      nz == b[3] - p.size[3] + 1
  IN IF nx <= 0 \/ ny <= 0 \/ nz <= 0 THEN <<>>
     ELSE [n \in 1..(nx * ny * nz) |->
             <<(n - 1) \div (ny * nz), ((n - 1) \div nz) % ny, (n - 1) % nz>>]

\* lines 330-334: the (orientation, anchor) pairs in loop order
RECURSIVE bruteItemsFrom(_, _, _)
bruteItemsFrom(b, orients, o) ==
  IF o > Len(orients) THEN <<>>
  ELSE LET a == anchorsOf(b, orients[o])
       IN [n \in 1..Len(a) |-> <<o, a[n]>>]
          \o bruteItemsFrom(b, orients, o + 1)

bruteItems(b, orients) == bruteItemsFrom(b, orients, 1)

Top == stack[Len(stack)]

\* the stack with its top frame replaced by f
WithTop(f) == [stack EXCEPT ![Len(stack)] = f]

\* the stack after the top frame has returned to its caller
Returned ==
  IF Len(stack) = 1 THEN <<>>
  ELSE [n \in 1..(Len(stack) - 1) |->
          IF n = Len(stack) - 1 THEN [stack[n] EXCEPT !.pc = "returned"]
          ELSE stack[n]]

NextFrame(avail, level) ==
  [fn |-> "next", avail |-> avail, level |-> level, idx |-> 0,
   emptyCell |-> <<0, 0, 0>>, k |-> 0, pc |-> "entry"]

BruteFrame(idx) ==
  [fn |-> "brute", avail |-> <<>>, level |-> 0, idx |-> idx,
   emptyCell |-> <<0, 0, 0>>, k |-> 0, pc |-> "entry"]

\* the Box and the list of available pieces as a call finds them
Entered(d, ps, avail) == [data |-> d, pieces |-> ps, avail |-> avail]

\* saved once the running call has returned
Left == SubSeq(saved, 1, Len(saved) - 1)

\* main, lines 447-450: Box box(...); searchNextCellPiece(0, ...)
Init ==
  /\ mode = "next"
  /\ box \in Boxes
  /\ \E q \in DefSeqs(MaxPieces) \ {<<>>} : catalog = CatalogOf(q)
  /\ data = EmptyData(box)
  /\ pieces = <<>>
  /\ solutions = <<>>
  /\ solutionsB = <<>>
  /\ stack = <<NextFrame([n \in DOMAIN catalog |-> n], 0)>>
  /\ status = "running"
  /\ last = <<>>
  /\ saved = <<Entered(data, pieces, [n \in DOMAIN catalog |-> n])>>
  /\ cur = NoPiece
  /\ rots = <<>>
  /\ orbit = <<>>

otherVars == <<box, catalog, last, cur, rots, orbit>>

Running(fn, pc) ==
  /\ status = "running"
  /\ stack # <<>>
  /\ Top.fn = fn
  /\ Top.pc = pc

\* lines 360-368: record a solution and return, or find the empty cell
NextEnter ==
  /\ Running("next", "entry")
  /\ IF Top.avail = <<>>
     THEN /\ solutions' = Append(solutions, [data |-> data, pieces |-> pieces])
          /\ stack' = Returned
          /\ saved' = Left
          /\ mode' = IF Len(stack) = 1 THEN "nextDone" ELSE mode
     ELSE /\ stack' = WithTop([Top EXCEPT
                                 !.emptyCell = findFirstEmptyCell(box, data),
                                 !.k = 1, !.pc = "loop"])
          /\ UNCHANGED <<solutions, mode, saved>>
  /\ UNCHANGED <<data, pieces, solutionsB, status, otherVars>>

\* lines 376-391: one orientation of one piece tried at the empty cell
\* (item, p and r each stand for the one value of their set)
NextTry ==
  /\ Running("next", "loop")
  /\ Top.k <= Len(nextItems(catalog, Top.avail))
  /\ \E item \in {nextItems(catalog, Top.avail)[Top.k]} :
     \E p \in {catalog[Top.avail[item[1]]][item[2]]} :
     \E r \in {tryPushPieceTo(box, data, pieces, p,
                               posToTry(Top.emptyCell, p))} :
        /\ data' = r.data
        /\ pieces' = r.pieces
        /\ stack' = IF r.ok
                    THEN Append(WithTop([Top EXCEPT !.pc = "called"]),
                                NextFrame(eraseAt(Top.avail, item[1]),
                                          Top.level + 1))
                    ELSE WithTop([Top EXCEPT !.k = Top.k + 1])
        /\ saved' = IF r.ok
                    THEN Append(saved,
                                Entered(r.data, r.pieces,
                                        eraseAt(Top.avail, item[1])))
                    ELSE saved
  /\ UNCHANGED <<solutions, solutionsB, mode, status, otherVars>>

\* lines 392-393: back from the recursive call, pop the piece
NextAfterCall ==
  /\ Running("next", "returned")
  /\ LET r == popPiece(box, data, pieces)
     IN /\ data' = r.data
        /\ pieces' = r.pieces
        /\ status' = IF r.aborted THEN "aborted" ELSE status
        /\ stack' = IF r.aborted THEN stack
                    ELSE WithTop([Top EXCEPT !.k = Top.k + 1, !.pc = "loop"])
  /\ UNCHANGED <<solutions, solutionsB, mode, saved, otherVars>>

\* line 397: both loops are over, return
NextLoopExit ==
  /\ Running("next", "loop")
  /\ Top.k > Len(nextItems(catalog, Top.avail))
  /\ stack' = Returned
  /\ saved' = Left
  /\ mode' = IF Len(stack) = 1 THEN "nextDone" ELSE mode
  /\ UNCHANGED <<data, pieces, solutions, solutionsB, status, otherVars>>

\* main, line 449: the same puzzle handed to searchOnePieceAllPosOrient,
\* with a Box of its own
StartBrute ==
  /\ mode = "nextDone"
  /\ status = "running"
  /\ mode' = "brute"
  /\ data' = EmptyData(box)
  /\ pieces' = <<>>
  /\ stack' = <<BruteFrame(0)>>
  /\ UNCHANGED <<solutions, solutionsB, status, saved, otherVars>>

\* lines 324-327: record a solution and return, or start the loops
BruteEnter ==
  /\ Running("brute", "entry")
  /\ IF Top.idx = Len(catalog)
     THEN /\ solutionsB' =
               Append(solutionsB, [data |-> data, pieces |-> pieces])
          /\ stack' = Returned
          /\ mode' = IF Len(stack) = 1 THEN "done" ELSE mode
     ELSE /\ stack' = WithTop([Top EXCEPT !.k = 1, !.pc = "loop"])
          /\ UNCHANGED <<solutionsB, mode>>
  /\ UNCHANGED <<data, pieces, solutions, status, saved, otherVars>>

\* lines 336-340: one orientation tried at one anchor
BruteTry ==
  /\ Running("brute", "loop")
  /\ Top.k <= Len(bruteItems(box, catalog[Top.idx + 1]))
  /\ LET item == bruteItems(box, catalog[Top.idx + 1])[Top.k]
         p == catalog[Top.idx + 1][item[1]]
         r == tryPushPieceTo(box, data, pieces, p, item[2])
     IN /\ data' = r.data
        /\ pieces' = r.pieces
        /\ stack' = IF r.ok
                    THEN Append(WithTop([Top EXCEPT !.pc = "called"]),
                                BruteFrame(Top.idx + 1))
                    ELSE WithTop([Top EXCEPT !.k = Top.k + 1])
  /\ UNCHANGED <<solutions, solutionsB, mode, status, saved, otherVars>>

\* lines 341-342: back from the recursive call, pop the piece
BruteAfterCall ==
  /\ Running("brute", "returned")
  /\ LET r == popPiece(box, data, pieces)
     IN /\ data' = r.data
        /\ pieces' = r.pieces
        /\ status' = IF r.aborted THEN "aborted" ELSE status
        /\ stack' = IF r.aborted THEN stack
                    ELSE WithTop([Top EXCEPT !.k = Top.k + 1, !.pc = "loop"])
  /\ UNCHANGED <<solutions, solutionsB, mode, saved, otherVars>>

\* line 348: the loops are over, return
BruteLoopExit ==
  /\ Running("brute", "loop")
  /\ Top.k > Len(bruteItems(box, catalog[Top.idx + 1]))
  /\ stack' = Returned
  /\ mode' = IF Len(stack) = 1 THEN "done" ELSE mode
  /\ UNCHANGED <<data, pieces, solutions, solutionsB, status, saved, otherVars>>

Next ==
  \/ NextEnter
  \/ NextTry
  \/ NextAfterCall
  \/ NextLoopExit
  \/ StartBrute
  \/ BruteEnter
  \/ BruteTry
  \/ BruteAfterCall
  \/ BruteLoopExit

Spec == Init /\ [][Next]_vars

\* the program is one thread that runs on until main returns: a step that
\* can be taken is taken
NextSearch == NextEnter \/ NextTry \/ NextAfterCall \/ NextLoopExit

SpecLive == Init /\ [][NextSearch]_vars /\ WF_vars(NextSearch)

(***************************************************************************)
(* Properties of the searches.                                             *)
(***************************************************************************)

\* the number of points of the pieces of the catalog
RECURSIVE CellSumFrom(_)
CellSumFrom(n) ==
  IF n > Len(catalog) THEN 0
  ELSE Len(catalog[n][1].points) + CellSumFrom(n + 1)

CellSum == CellSumFrom(1)

ExactFit == Volume(box) = CellSum

CatalogCanonical ==
  \A n \in DOMAIN catalog : \A k \in DOMAIN catalog[n] :
    IsCanonical(catalog[n][k])

\* a snapshot as the set of its placements
Placements(snap) ==
  {<<snap.pieces[n].piece.id, snap.pieces[n].piece.points, snap.pieces[n].pos>> :
     n \in DOMAIN snap.pieces}

SolutionSet(sols) == {Placements(sols[n]) : n \in DOMAIN sols}

\* C1: for canonical pieces whose cell counts sum to the volume of the box,
\* searchNextCellPiece and searchOnePieceAllPosOrient record the same set of
\* solutions, each taken as its set of (id, orientation, anchor) placements.
SearchesAgree ==
  (mode = "done" /\ CatalogCanonical /\ ExactFit) =>
    SolutionSet(solutions) = SolutionSet(solutionsB)

\* both searches are over and found several tilings, one of them with an
\* orientation whose first point is not its origin
SearchesAgreeWitness ==
  /\ mode = "done"
  /\ CatalogCanonical
  /\ ExactFit
  /\ Len(solutions) >= 2
  /\ \E s \in SolutionSet(solutionsB) :
       \E pl \in s : pl[2][1] # <<0, 0, 0>>

\* the cells of the box that the record covers
Covered(rec) == Cells(box, rec.piece, rec.pos)

AllCells == (0..(box[1] - 1)) \X (0..(box[2] - 1)) \X (0..(box[3] - 1))

\* C2: when the cell counts sum to the volume of the box, every snapshot
\* recorded by searchNextCellPiece has every cell occupied, every cell
\* covered by exactly one placed piece, and no PieceID twice in its list.
SolutionsAreTilings ==
  ExactFit =>
    \A n \in DOMAIN solutions :
      LET snap == solutions[n]
      IN /\ \A i \in DOMAIN snap.data : snap.data[i] # NONE
         /\ \A c \in AllCells :
              Cardinality({m \in DOMAIN snap.pieces :
                             c \in Covered(snap.pieces[m])}) = 1
         /\ \A m \in DOMAIN snap.pieces :
              Covered(snap.pieces[m]) \subseteq AllCells
         /\ \A i, j \in DOMAIN snap.pieces :
              i # j => snap.pieces[i].piece.id # snap.pieces[j].piece.id

\* a tiling by several pieces has been recorded
SolutionsAreTilingsWitness ==
  /\ ExactFit
  /\ solutions # <<>>
  /\ Len(solutions[1].pieces) >= 2

\* C3: when the volume of the box differs from the sum of the cell counts,
\* searchNextCellPiece ends with no solution recorded.
NoSolutionOnVolumeMismatch ==
  (mode # "next" /\ ~ExactFit) => solutions = <<>>

\* C4: no two entries of solutions have the same set of placements.
SolutionsDistinct ==
  \A i, j \in DOMAIN solutions :
    i # j => Placements(solutions[i]) # Placements(solutions[j])

\* searchNextCellPiece is over and has recorded several solutions
SolutionsDistinctWitness ==
  /\ mode = "nextDone"
  /\ Len(solutions) >= 3
  /\ Len(catalog) >= 2

\* the records of the placement stack that cover the cell c
Covering(c) == {m \in DOMAIN pieces : c \in Covered(pieces[m])}

\* C13: while searchNextCellPiece runs, each cell of data holds the PieceID
\* of the one stacked piece whose translated points cover it, and NONE when
\* no stacked piece covers it; the stacked pieces are pairwise disjoint and
\* lie inside the box, and no PieceID occurs twice on the stack.
OccupancyInvariant ==
  mode = "next" =>
    /\ \A c \in AllCells :
         IF Covering(c) = {} THEN data[CellIndex(box, c)] = NONE
         ELSE /\ Cardinality(Covering(c)) = 1
              /\ \A m \in Covering(c) :
                   data[CellIndex(box, c)] = pieces[m].piece.id
    /\ \A m \in DOMAIN pieces : Covered(pieces[m]) \subseteq AllCells
    /\ \A i, j \in DOMAIN pieces :
         i # j => /\ Covered(pieces[i]) \cap Covered(pieces[j]) = {}
                  /\ pieces[i].piece.id # pieces[j].piece.id

\* the search is under way with several pieces stacked, a cell still empty
\* and an earlier attempt of some running call behind it
OccupancyInvariantWitness ==
  /\ mode = "next"
  /\ Len(pieces) >= 2
  /\ pieces[1].piece.id # 1
  /\ \E i \in DOMAIN data : data[i] = NONE
  /\ \E n \in DOMAIN stack : stack[n].k >= 2

\* the number of points of the pieces of the list avail
RECURSIVE AvailCells(_)
AvailCells(avail) ==
  IF avail = <<>> THEN 0
  ELSE Len(catalog[Head(avail)][1].points) + AvailCells(Tail(avail))

\* the number of empty cells of the grid d
EmptyCells(d) == Cardinality({i \in DOMAIN d : d[i] = NONE})

\* C14 as stated: at every invocation of searchNextCellPiece the cell counts
\* of the available pieces sum to the number of empty cells of the box, and
\* whenever pieces remain findFirstEmptyCell returns an empty cell inside
\* the box, never (-1, -1, -1).
AvailableMatchesEmpty ==
  mode = "next" =>
    \A n \in DOMAIN stack :
      /\ AvailCells(stack[n].avail) = EmptyCells(saved[n].data)
      /\ stack[n].pc # "entry" =>
            /\ InBox(box, stack[n].emptyCell)
            /\ saved[n].data[CellIndex(box, stack[n].emptyCell)] = NONE

\* C14 amended: at every invocation of searchNextCellPiece the cell counts
\* of the available pieces exceed the number of empty cells by the cell
\* counts of the whole catalog less the volume of the box, so the two are
\* equal when the catalog fills the box exactly; and when the catalog's
\* cell counts do not exceed the volume, findFirstEmptyCell returns an
\* empty cell inside the box whenever pieces remain.
AvailableMatchesEmptyAmended ==
  mode = "next" =>
    \A n \in DOMAIN stack :
      /\ AvailCells(stack[n].avail) - EmptyCells(saved[n].data)
           = CellSum - Volume(box)
      /\ (stack[n].pc # "entry" /\ CellSum <= Volume(box)) =>
            /\ InBox(box, stack[n].emptyCell)
            /\ saved[n].data[CellIndex(box, stack[n].emptyCell)] = NONE

\* a call two levels down has found its empty cell in a box that the
\* catalog fills exactly
AvailableMatchesEmptyWitness ==
  /\ mode = "next"
  /\ ExactFit
  /\ Len(stack) >= 3
  /\ Top.pc = "loop"
  /\ Top.emptyCell # <<0, 0, 0>>
  /\ AvailCells(Top.avail) = EmptyCells(data)

\* a comes before b in the order of the scan: x outer, y middle, z inner
ScanBefore(a, b) ==
  \/ a[1] < b[1]
  \/ (a[1] = b[1] /\ a[2] < b[2])
  \/ (a[1] = b[1] /\ a[2] = b[2] /\ a[3] < b[3])

\* e is what the scan of the grid d has to return: the first empty cell in
\* scan order, or (-1, -1, -1) when no cell is empty
IsFirstEmpty(d, e) ==
  IF \A c \in AllCells : d[CellIndex(box, c)] # NONE
  THEN e = <<-1, -1, -1>>
  ELSE /\ e \in AllCells
       /\ d[CellIndex(box, e)] = NONE
       /\ \A c \in AllCells : ScanBefore(c, e) => d[CellIndex(box, c)] # NONE

\* C15: the cell chosen by a call of searchNextCellPiece is the first empty
\* cell of the box in scan order (x outer, y middle, z inner); the cell
\* chosen by a recursive call comes strictly after the cell chosen by its
\* caller in that order; and a scan resumed from the successor of the
\* caller's cell returns what the scan from the origin returns.  (A call
\* that finds the box full chooses no cell: both scans return (-1, -1, -1).)
ScanMonotone ==
  mode = "next" =>
    \A n \in DOMAIN stack :
      stack[n].pc # "entry" =>
        /\ IsFirstEmpty(saved[n].data, stack[n].emptyCell)
        /\ n > 1 =>
             LET mine == stack[n].emptyCell
                 callers == stack[n - 1].emptyCell
             IN /\ callers \in AllCells
                /\ mine \in AllCells => ScanBefore(callers, mine)
                /\ scanFrom(box, saved[n].data,
                            callers[1], callers[2], callers[3] + 1) = mine

\* three nested calls have chosen their cells, the last one in another row
\* of the scan than the first
ScanMonotoneWitness ==
  /\ mode = "next"
  /\ Len(stack) >= 3
  /\ Top.pc = "loop"
  /\ Top.emptyCell \in AllCells
  /\ Top.emptyCell[1] > stack[1].emptyCell[1]
  /\ Top.emptyCell[2] + Top.emptyCell[3] > 0

\* the running call returns in this step
Returns == mode = "next" /\ Len(stack') < Len(stack)

\* C16: when a call of searchNextCellPiece returns, data and pieces are
\* what they were at the entry of that call and the caller's list of
\* available pieces is what the caller was entered with; after the top call
\* the box is empty again; and no step changes a snapshot already in
\* solutions.
UndoDiscipline ==
  [][/\ Returns =>
          /\ Len(saved) = Len(stack)
          /\ data = saved[Len(saved)].data
          /\ pieces = saved[Len(saved)].pieces
          /\ data' = data
          /\ pieces' = pieces
          /\ stack' # <<>> =>
                /\ stack'[Len(stack')].avail = saved[Len(stack')].avail
                /\ stack'[Len(stack')].avail = stack[Len(stack')].avail
     /\ mode' = "nextDone" => (data' = EmptyData(box) /\ pieces' = <<>>)
     /\ Len(solutions') >= Len(solutions)
     /\ \A n \in DOMAIN solutions : solutions'[n] = solutions[n]]_vars

\* a call below the top one has got its recursive call back after a
\* solution of three pieces was recorded, its own piece still on the stack
UndoDisciplineWitness ==
  /\ mode = "next"
  /\ Len(stack) >= 2
  /\ Top.pc = "returned"
  /\ solutions # <<>>
  /\ Len(solutions[Len(solutions)].pieces) >= 3
  /\ Len(pieces) = Len(stack)

\* the n-th running call is at level n - 1 and has a list of available
\* pieces n - 1 shorter than the catalog, so one shorter than its caller's;
\* no call is deeper than the number of pieces of the catalog
DepthBounded ==
  mode = "next" =>
    /\ Len(stack) <= Len(catalog) + 1
    /\ \A n \in DOMAIN stack :
         /\ stack[n].level = n - 1
         /\ Len(stack[n].avail) = Len(catalog) - (n - 1)
         /\ n > 1 => Len(stack[n].avail) = Len(stack[n - 1].avail) - 1

\* C17: searchNextCellPiece eventually returns to main; each recursive call
\* receives a list of available pieces one element shorter than its
\* caller's, and the recursion is never deeper than the number of pieces of
\* the catalog.
SearchTerminates == []DepthBounded /\ <>(mode # "next")

\* the search of a catalog of three pieces has returned to main, having
\* been as deep as the catalog is long
SearchTerminatesWitness ==
  /\ mode = "nextDone"
  /\ stack = <<>>
  /\ Len(catalog) >= 3
  /\ \E n \in DOMAIN solutions : Len(solutions[n].pieces) = Len(catalog)

\* searchNextCellPiece is about to call tryPushPieceTo
AboutToTry ==
  /\ mode = "next"
  /\ Running("next", "loop")
  /\ Top.k <= Len(nextItems(catalog, Top.avail))

\* C18: in every placement attempt of searchNextCellPiece, those at an
\* anchor with a negative coordinate and those derived from (-1, -1, -1)
\* included, every index at which tryPushPieceTo reads or writes data is
\* within [0, X*Y*Z): an attempt whose first point is out of bounds uses no
\* index at all, and an attempt with any point out of bounds is rejected
\* and leaves data as it was.
NoOutOfRangeAccess ==
  AboutToTry =>
    LET item == nextItems(catalog, Top.avail)[Top.k]
        p == catalog[Top.avail[item[1]]][item[2]]
        pos == posToTry(Top.emptyCell, p)
        used == indicesUsed(box, data, p, pos)
    IN /\ \A i \in used : 0 <= i /\ i < box[1] * box[2] * box[3]
       /\ ~InBox(box, Translate(pos, p.points[1])) => used = {}
       /\ (\E c \in Cells(box, p, pos) : ~InBox(box, c)) =>
            LET r == tryPushPieceTo(box, data, pieces, p, pos)
            IN ~r.ok /\ r.data = data /\ r.pieces = pieces

\* the box is full with pieces remaining: an attempt derived from
\* (-1, -1, -1) has been rejected and the next one is due
NoOutOfRangeAccessWitness ==
  /\ AboutToTry
  /\ Top.emptyCell = <<-1, -1, -1>>
  /\ Top.k >= 2
  /\ pieces # <<>>

====
